---- MODULE Spec2Model ----
(***************************************************************************)
(* Model of the tool-invocation bridge of mcp-ia-example.                  *)
(*                                                                         *)
(* Part 1: MCPClientService (src/src/backend/services/mcp-client.ts), the  *)
(* connection manager that owns the worker subprocess, the protocol client *)
(* and the reconnection timers.                                            *)
(*                                                                         *)
(* JavaScript runs each synchronous block to completion, so one action is  *)
(* one synchronous block: from a call, a timer callback or an event        *)
(* handler up to the next `await` of a promise that is settled by the      *)
(* outside world (the SDK client's connect/close/request promises).        *)
(* Time is counted in seconds; the three setTimeout delays of the source   *)
(* are 2000, 5000 and 3000 ms.                                             *)
(***************************************************************************)
EXTENDS Integers, Sequences, FiniteSets, Bags, TLC

\* ---------------------------------------------------------------- bounds
\* Reconnection (Spec): subprocesses spawned, and external connect() /
\* disconnect() calls, in one execution
MaxSpawn == 4
MaxCalls == 1
\* Explicit disconnection (SpecDisc)
MaxSpawnDisc == 2
MaxCallsDisc == 3
\* Round-trips (SpecReq, FairSpecReq): subprocesses, external calls and
\* requests issued
MaxSpawnReq == 1
MaxCallsReq == 2
MaxRequests == 1

\* The bounds of one specification, the round-trip operations its callers use
\* and the history fields its properties read.
Bounds(spawn, ext, reqs, kinds, track) ==
  [spawn |-> spawn, calls |-> ext, reqs |-> reqs, kinds |-> kinds, track |-> track]

\* ------------------------------------------------------ program constants
\* private maxReconnectAttempts: number = 3
maxReconnectAttempts == 3
\* setTimeout(() => this.reconnect(), 2000) in the exit handler, in seconds
ExitReconnectDelay == 2
\* setTimeout(() => this.reconnect(), 5000) after a failed attempt, in seconds
RetryReconnectDelay == 5
\* setTimeout(..., 3000) before SIGKILL in disconnect(), in seconds
KillGraceDelay == 3

\* the `null` of this.client / this.transport / this.serverProcess
Null == 0
\* the exit code `null` of a subprocess terminated by a signal
NullCode == -1

\* the six round-trip operations of the manager
ListKinds == {"listTools", "listResources", "listPrompts"}
RawKinds == {"callTool", "readResource", "getPrompt"}
RequestKinds == ListKinds \cup RawKinds

VARIABLES
  client,             \* this.client: Null or the Client created by the g-th connect()
  transport,          \* this.transport: Null or the transport of the g-th connect()
  serverProcess,      \* this.serverProcess: Null or the g-th spawned ChildProcess
  isConnected,        \* this.isConnected
  reconnectAttempts,  \* this.reconnectAttempts
  procs,              \* the ChildProcesses spawned so far, in spawn order
  timers,             \* bag of pending setTimeout callbacks
  tasks,              \* bag of suspended async invocations (connect/disconnect/reconnect)
  requests,           \* the round-trips issued so far: in flight on the SDK client (with
                      \* the operation that awaits it) or done (with the caller's outcome)
  calls,              \* number of external connect()/disconnect() calls so far
  hist,               \* history of the execution, read only by the properties
  conversations,      \* ConversationManager.conversations: the Map, as its entries in
                      \* insertion order
  now,                \* the clock read by Date.now() / new Date(), in units of 24 hours
  last,               \* history of the last ConversationManager operation: what it
                      \* returned and what its cleanup removed
  msgIds,             \* number of ChatMessages created so far (their ids are unique)
  turn,               \* the ChatService.processMessage invocation in progress
  http,               \* the POST /api/chat request being handled
  posts,              \* the POST /api/chat requests that overlap (Part 5), in arrival order
  micro,              \* the microtask queue: the requests whose continuation is ready
  issued,             \* history: the updateConversation calls made, in call order
  toolCallCount,      \* ChatService.toolCallCount
  responseTimes       \* ChatService.responseTimes: the turn of each sample, in push order

mgr == <<client, transport, serverProcess, isConnected, reconnectAttempts>>
\* the connection manager and what it has pending
conn == <<client, transport, serverProcess, isConnected, reconnectAttempts,
          procs, timers, tasks, requests, calls, hist>>
\* the conversation store
store == <<conversations, now, last>>
\* the turn orchestrator and the HTTP boundary
chat == <<msgIds, turn, http>>
\* the chat requests that overlap, the event loop and the statistics
loop == <<posts, micro, issued, toolCallCount, responseTimes>>
vars == <<client, transport, serverProcess, isConnected, reconnectAttempts,
          procs, timers, tasks, requests, calls, hist,
          conversations, now, last, msgIds, turn, http,
          posts, micro, issued, toolCallCount, responseTimes>>

\* ------------------------------------------------------------- the state
\* The fields an operation of the manager reads and writes, as one record, so
\* that the sequential code of a handler composes as function application.
State ==
  [client |-> client, transport |-> transport, serverProcess |-> serverProcess,
   isConnected |-> isConnected, reconnectAttempts |-> reconnectAttempts,
   procs |-> procs, timers |-> timers, tasks |-> tasks, hist |-> hist]

\* the history a specification keeps: the fields its properties read
Tracked(B, h) ==
  [started |-> IF "started" \in B.track THEN h.started ELSE 0,
   failed |-> IF "failed" \in B.track THEN h.failed ELSE 0,
   armed |-> IF "readyBy" \in B.track THEN h.armed ELSE FALSE,
   readyBy |-> IF "readyBy" \in B.track THEN h.readyBy ELSE 0,
   exit0 |-> IF "exit0" \in B.track THEN h.exit0 ELSE FALSE,
   explicitDisc |-> IF "explicitDisc" \in B.track THEN h.explicitDisc ELSE FALSE]

Commit(B, s) ==
  /\ client' = s.client
  /\ transport' = s.transport
  /\ serverProcess' = s.serverProcess
  /\ isConnected' = s.isConnected
  /\ reconnectAttempts' = s.reconnectAttempts
  /\ procs' = s.procs
  /\ timers' = s.timers
  /\ tasks' = s.tasks
  /\ hist' = Tracked(B, s.hist)
  /\ UNCHANGED <<store, chat, loop>>

\* A ChildProcess: running or exited, its .killed property (kill() delivered a
\* signal), and the last signal kill() delivered while it runs.
Spawned == [st |-> "running", killed |-> FALSE, sig |-> "none"]

\* A pending setTimeout callback and the seconds left before it is due.
\* target: the subprocess disconnect() had signalled when it armed the timer
\* (history: the callback itself reads this.serverProcess when it runs).
Timer(kind, delay, target) == [kind |-> kind, left |-> delay, target |-> target]
\* A suspended invocation. gen: the subprocess spawned by the invocation's own
\* connect() (Null before it).
Task(op, pc, gen) == [op |-> op, pc |-> pc, gen |-> gen]

AddTimer(s, t) == [s EXCEPT !.timers = @ (+) SetToBag({t})]
DropTimer(s, t) == [s EXCEPT !.timers = @ (-) SetToBag({t})]
AddTask(s, t) == [s EXCEPT !.tasks = @ (+) SetToBag({t})]
DropTask(s, t) == [s EXCEPT !.tasks = @ (-) SetToBag({t})]

HistInit ==
  [started |-> 0,          \* reconnect attempts started since the last successful connect()
   failed |-> 0,           \* reconnect attempts that failed in a row
   armed |-> FALSE,        \* a worker exited abnormally while the manager was Ready, and no
                           \* connect() has succeeded since
   readyBy |-> Null,       \* the replacement worker of the reconnect attempt that succeeded,
                           \* while it has not exited and disconnect() has not been called
   exit0 |-> FALSE,        \* a worker exited with code 0 while no external connect() was
                           \* running, and none has been called since
   explicitDisc |-> FALSE] \* an external disconnect() ran to its end and returned, and no
                           \* external connect() has been called since

\* no ConversationManager operation has run yet
NoLast == [op |-> "none", val |-> Null, age |-> {}, volume |-> {}, distinct |-> FALSE]
\* no processMessage invocation / no request in progress
NoTurn ==
  [pc |-> "idle", conversationId |-> Null, needsMCPTools |-> FALSE,
   suggestedTools |-> << >>, category |-> "unset", i |-> 0,
   ready |-> FALSE, sent |-> FALSE,
   mcpActions |-> << >>, log |-> << >>, response |-> Null]
NoRequest == [pc |-> "idle", conversationId |-> Null, status |-> 0, data |-> Null]

Init ==
  /\ client = Null
  /\ transport = Null
  /\ serverProcess = Null
  /\ isConnected = FALSE
  /\ reconnectAttempts = 0
  /\ procs = << >>
  /\ timers = EmptyBag
  /\ tasks = EmptyBag
  /\ requests = << >>
  /\ calls = 0
  /\ hist = HistInit
  /\ conversations = << >>
  /\ now = 0
  /\ last = NoLast
  /\ msgIds = 0
  /\ turn = NoTurn
  /\ http = NoRequest
  /\ posts = << >>
  /\ micro = << >>
  /\ issued = << >>
  /\ toolCallCount = 0
  /\ responseTimes = << >>

\* ------------------------------------------------------------ subprocess
\* ChildProcess.kill(signal): delivers the signal and sets .killed when the
\* process still runs; returns false and changes nothing once it has exited.
Kill(s, p, signal) ==
  IF s.procs[p].st = "running"
    THEN [s EXCEPT !.procs[p].killed = TRUE, !.procs[p].sig = signal]
    ELSE s

\* ------------------------------------------------------------- connect()
\* connect(), lines 36-84: spawn the subprocess and register its handlers,
\* create the client and the transport, call client.connect(transport) and
\* suspend on its promise.  op is the invocation that awaits it.
ConnectStart(s, op) ==
  LET g == Len(s.procs) + 1
      s1 == [s EXCEPT !.procs = Append(@, Spawned),
                      !.serverProcess = g,
                      !.client = g,
                      !.transport = g]
  IN AddTask(s1, Task(op, "handshake", g))

\* connect(), lines 86-88: the handshake succeeded.
ConnectSucceeded(s) ==
  [s EXCEPT !.isConnected = TRUE, !.reconnectAttempts = 0]

\* connect(), lines 90-94: the handshake failed; connect() throws.
ConnectFailed(s) ==
  [s EXCEPT !.isConnected = FALSE]

\* ---------------------------------------------------------- disconnect()
\* disconnect(), lines 128-143, after the client has been closed (or was null).
DisconnectTail(s) ==
  LET p == s.serverProcess
      s1 == IF p # Null /\ ~s.procs[p].killed
              THEN AddTimer(Kill(s, p, "SIGTERM"), Timer("sigkill", KillGraceDelay, p))
              ELSE s
  IN [s1 EXCEPT !.transport = Null, !.serverProcess = Null, !.isConnected = FALSE]

\* disconnect(), line 125 and on: client.close() resolved.
DisconnectClosed(s) ==
  DisconnectTail([s EXCEPT !.client = Null])

\* disconnect(), lines 144-146: client.close() rejected; the error is logged.
DisconnectCloseFailed(s) == s

\* the callback of disconnect()'s setTimeout, lines 132-136
KillTimerFired(s) ==
  LET p == s.serverProcess
  IN IF p # Null /\ ~s.procs[p].killed THEN Kill(s, p, "SIGKILL") ELSE s

\* ----------------------------------------------------------- reconnect()
\* reconnect(), lines 107-115: the attempt failed.
ReconnectFailed(s) ==
  IF s.reconnectAttempts < maxReconnectAttempts
    THEN AddTimer(s, Timer("reconnect", RetryReconnectDelay, Null))
    ELSE s

\* the 'exit' handler registered by connect(), lines 54-63
ExitHandler(s, code) ==
  LET s1 == [s EXCEPT !.isConnected = FALSE]
  IN IF code # 0 /\ s1.reconnectAttempts < maxReconnectAttempts
       THEN AddTimer(s1, Timer("reconnect", ExitReconnectDelay, Null))
       ELSE s1

\* the 'error' handler registered by connect(), lines 49-52
ErrorHandler(s) ==
  [s EXCEPT !.isConnected = FALSE]

\* reconnect(), lines 101-105 up to the first suspension: count the attempt,
\* run disconnect() as far as it goes without waiting, and if it returned,
\* start connect().
ReconnectStart(s) ==
  LET s1 == [s EXCEPT !.reconnectAttempts = @ + 1]
  IN IF s1.client # Null
       THEN AddTask(s1, Task("reconnect", "closing", Null))
       ELSE ConnectStart(DisconnectTail(s1), "reconnect")

\* isClientConnected(), lines 152-154
isClientConnected == isConnected /\ client # Null

\* --------------------------------------------------------------- actions
\* Each action takes the bounds B of the specification it is used in.
CanSpawn(B) == Len(procs) < B.spawn

\* an external caller (app.ts initialize) calls connect()
ExtConnect(B) ==
  /\ calls < B.calls
  /\ CanSpawn(B)
  /\ calls' = calls + 1
  /\ Commit(B, [ConnectStart(State, "connect") EXCEPT
               !.hist.exit0 = FALSE, !.hist.explicitDisc = FALSE])
  /\ UNCHANGED requests

\* an external caller (app.ts SIGINT handler) calls disconnect(), lines 121-126:
\* it suspends on client.close() when there is a client and otherwise runs to
\* its end at once
ExtDisconnect(B) ==
  /\ calls < B.calls
  /\ calls' = calls + 1
  /\ IF client # Null
       THEN Commit(B, [AddTask(State, Task("disconnect", "closing", Null)) EXCEPT
                     !.hist.readyBy = Null])
       ELSE Commit(B, [DisconnectTail(State) EXCEPT
                     !.hist.readyBy = Null, !.hist.explicitDisc = TRUE])
  /\ UNCHANGED requests

\* the promise of client.close() settles and the awaiting disconnect() goes on;
\* a disconnect() called by reconnect() returns into reconnect(), which calls
\* connect() (lines 104-105)
CloseSettled(B, t, ok) ==
  /\ BagIn(t, tasks)
  /\ t.pc = "closing"
  /\ LET s0 == DropTask(State, t)
         s1 == IF ok THEN DisconnectClosed(s0) ELSE DisconnectCloseFailed(s0)
     IN IF t.op = "disconnect"
          THEN Commit(B, [s1 EXCEPT !.hist.explicitDisc = IF ok THEN TRUE ELSE @])
          ELSE CanSpawn(B) /\ Commit(B, ConnectStart(s1, "reconnect"))
  /\ UNCHANGED <<requests, calls>>

\* the promise of client.connect(transport) settles and the awaiting connect()
\* goes on (lines 86-94); a connect() called by reconnect() returns or throws
\* into reconnect() (lines 106-115)
HandshakeSettled(B, t, ok) ==
  /\ BagIn(t, tasks)
  /\ t.pc = "handshake"
  /\ LET s0 == DropTask(State, t)
     IN IF ok
          THEN Commit(B, [ConnectSucceeded(s0) EXCEPT
                 !.hist.started = 0, !.hist.failed = 0, !.hist.armed = FALSE,
                 !.hist.readyBy = IF t.op = "reconnect" /\ hist.armed
                                       /\ procs[t.gen].st = "running"
                                    THEN t.gen ELSE @])
          ELSE IF t.op = "reconnect"
                 THEN Commit(B, [ReconnectFailed(ConnectFailed(s0)) EXCEPT !.hist.failed = @ + 1])
                 ELSE Commit(B, ConnectFailed(s0))
  /\ UNCHANGED <<requests, calls>>

\* the exit codes a subprocess can end with: 0 (it handled SIGINT), 1 (it
\* failed), or null when a signal sent by kill() terminated it
ExitCodes(p) == {0, 1} \cup (IF procs[p].sig # "none" THEN {NullCode} ELSE {})

\* an external connect() is suspended on its handshake
ConnectRunning == \E t \in BagToSet(tasks) : t.op = "connect"

\* a subprocess ends and its 'exit' event is delivered
ProcExit(B, p, code) ==
  /\ procs[p].st = "running"
  /\ code \in ExitCodes(p)
  /\ LET s0 == [State EXCEPT !.procs[p].st = "exited", !.procs[p].sig = "none"]
     IN Commit(B, [ExitHandler(s0, code) EXCEPT
           !.hist.armed = IF code # 0 /\ isClientConnected THEN TRUE ELSE @,
           !.hist.readyBy = IF @ = p THEN Null ELSE @,
           !.hist.exit0 = IF code = 0 /\ ~ConnectRunning THEN TRUE ELSE @])
  /\ UNCHANGED <<requests, calls>>

\* a subprocess could not be started: its 'error' event is delivered and no
\* 'exit' event follows
ProcError(B, p) ==
  /\ procs[p].st = "running"
  /\ procs[p].sig = "none"
  /\ LET s0 == [State EXCEPT !.procs[p].st = "exited"]
     IN Commit(B, [ErrorHandler(s0) EXCEPT !.hist.readyBy = IF @ = p THEN Null ELSE @])
  /\ UNCHANGED <<requests, calls>>

\* a setTimeout callback runs: when its delay has passed (due), or, where the
\* clock is left out, at any time after it was armed
TimerFired(B, t, due) ==
  /\ BagIn(t, timers)
  /\ due => t.left = 0
  /\ LET s0 == DropTimer(State, t)
     IN IF t.kind = "sigkill"
          THEN Commit(B, KillTimerFired(s0))
          ELSE /\ (s0.client = Null) => CanSpawn(B)
               /\ Commit(B, [ReconnectStart(s0) EXCEPT
                     !.hist.started = @ + 1, !.hist.readyBy = Null])
  /\ UNCHANGED <<requests, calls>>

\* one second passes; no callback that is due is left waiting
Tick ==
  /\ timers # EmptyBag
  /\ \A t \in BagToSet(timers) : t.left > 0
  /\ timers' = [t \in {[u EXCEPT !.left = @ - 1] : u \in BagToSet(timers)} |->
                  timers[[t EXCEPT !.left = @ + 1]]]
  /\ UNCHANGED <<mgr, procs, tasks, requests, calls, hist, store, chat, loop>>

\* -------------------------------------------------------------- requests
\* what the SDK client's request promise can settle with: a result, a result
\* carrying the tool-level isError flag (tools/call only), a rejection, or the
\* rejection of the request timeout
SdkOutcomes(kind) ==
  {"result", "rejected", "timeout"} \cup (IF kind = "callTool" THEN {"isError"} ELSE {})

\* what the caller of a round-trip gets, lines 164-176 and 233-246: the
\* response is returned (mapped to descriptors by the list operations, raw
\* otherwise); anything thrown is caught and rethrown as a new Error
CallerOutcome(kind, res) ==
  CASE res = "result" -> "ok"
    [] res = "isError" -> "toolError"
    [] res = "rejected" -> "error"
    [] res = "timeout" -> "timeout"

\* the guard that opens each round-trip, lines 160-162, 183-185, 206-208,
\* 229-231, 253-255, 274-276
\* (faulty variant: the guard tests the client handle only)
RequestAllowedClientOnly == client # Null
RequestAllowed == isClientConnected /\ client # Null

\* listTools / listResources / listPrompts / callTool / readResource /
\* getPrompt is called: it throws at once when the guard fails, and otherwise
\* sends the request on this.client and suspends on its promise
RequestCall(B, kind) ==
  /\ Len(requests) < B.reqs
  /\ requests' = Append(requests,
        IF RequestAllowed
          THEN [st |-> "inflight", kind |-> kind, out |-> "none"]
          ELSE [st |-> "done", kind |-> "none", out |-> "notConnected"])
  /\ UNCHANGED <<mgr, procs, timers, tasks, calls, hist, store, chat, loop>>

\* `await this.client.<request>(...)`, lines 165, 188, 211, 236, 260, 281: the
\* round-trip resumes as soon as its own promise settles, whatever the
\* connection has become meanwhile
\* (faulty variant: the round-trip goes on only while the manager is connected)
CanResumeWhileConnected(r) ==
  r \in DOMAIN requests /\ requests[r].st = "inflight" /\ isClientConnected
CanResume(r) ==
  r \in DOMAIN requests /\ requests[r].st = "inflight"

\* what the rest of a round-trip does to the manager, lines 167-176 and
\* 241-246: it logs, and returns the response or rethrows; no field is written
\* (faulty variant: a failed request is taken for a lost connection)
AfterRoundTripDropsConnection(s, res) ==
  IF res \in {"rejected", "timeout"} THEN [s EXCEPT !.isConnected = FALSE] ELSE s
AfterRoundTrip(s, res) == s

\* the request promise settles and the round-trip returns or throws
RequestSettled(B, r, res) ==
  /\ CanResume(r)
  /\ res \in SdkOutcomes(requests[r].kind)
  /\ requests' = [requests EXCEPT ![r] =
        [st |-> "done", kind |-> "none", out |-> CallerOutcome(requests[r].kind, res)]]
  /\ Commit(B, AfterRoundTrip(State, res))
  /\ UNCHANGED calls

\* --------------------------------------------------------- specification
Gens == DOMAIN procs
ReqIds == DOMAIN requests

\* the manager: connect(), disconnect(), reconnection and the subprocess events
Manager(B) ==
  \/ ExtConnect(B)
  \/ ExtDisconnect(B)
  \/ \E t \in BagToSet(tasks), ok \in BOOLEAN : CloseSettled(B, t, ok)
  \/ \E t \in BagToSet(tasks), ok \in BOOLEAN : HandshakeSettled(B, t, ok)
  \/ \E p \in Gens, code \in {0, 1, NullCode} : ProcExit(B, p, code)
  \/ \E p \in Gens : ProcError(B, p)

\* the timers, with the clock
Clock(B) ==
  \/ \E t \in BagToSet(timers) : TimerFired(B, t, TRUE)
  \/ Tick

\* the timers without the clock: a callback runs at any time after it was armed
\* (every behaviour with the clock is one of these)
NoClock(B) == \E t \in BagToSet(timers) : TimerFired(B, t, FALSE)

\* the round-trips
RoundTrips(B) ==
  \/ \E kind \in B.kinds : RequestCall(B, kind)
  \/ \E r \in ReqIds, res \in {"result", "isError", "rejected", "timeout"} : RequestSettled(B, r, res)

\* Reconnection: one external call, then the subprocesses and the timers
BSpec == Bounds(MaxSpawn, MaxCalls, 0, {}, {"started", "failed", "readyBy"})
Next == Manager(BSpec) \/ Clock(BSpec)
Spec == Init /\ [][Next]_vars

\* Explicit disconnection: external connect() and disconnect() calls in any order
BDisc == Bounds(MaxSpawnDisc, MaxCallsDisc, 0, {}, {"exit0", "explicitDisc"})
NextDisc == Manager(BDisc) \/ Clock(BDisc)
SpecDisc == Init /\ [][NextDisc]_vars

\* Round-trips issued while the manager connects, disconnects and reconnects.
\* What a round-trip does depends on no delay, so the timers run without the
\* clock here: every behaviour with the clock is one of these.
BReq == Bounds(MaxSpawnReq, MaxCallsReq, MaxRequests, RequestKinds, {})
NextReq == Manager(BReq) \/ NoClock(BReq) \/ RoundTrips(BReq)
SpecReq == Init /\ [][NextReq]_vars

\* The same with the SDK settling every request promise: with the response, or
\* by rejecting it when the connection closes or the request timeout expires.
\* The callers use one list operation, tools/call and one other raw operation.
LiveKinds == {"listTools", "callTool", "readResource"}
BLive == Bounds(MaxSpawnReq, MaxCallsReq, MaxRequests, LiveKinds, {})
NextLive == Manager(BLive) \/ NoClock(BLive) \/ RoundTrips(BLive)
FairSpecReq ==
  /\ Init /\ [][NextLive]_vars
  /\ \A r \in 1..MaxRequests :
       WF_vars(\E res \in {"result", "isError", "rejected", "timeout"} : RequestSettled(BLive, r, res))

TypeOK ==
  /\ client \in Gens \cup {Null}
  /\ transport \in Gens \cup {Null}
  /\ serverProcess \in Gens \cup {Null}
  /\ isConnected \in BOOLEAN
  /\ reconnectAttempts \in Nat
  /\ \A t \in BagToSet(timers) :
       t.kind \in {"reconnect", "sigkill"} /\ t.left \in 0..RetryReconnectDelay
  /\ \A t \in BagToSet(tasks) :
       t.op \in {"connect", "disconnect", "reconnect"} /\ t.pc \in {"closing", "handshake"}
  /\ \A r \in ReqIds : requests[r].st \in {"inflight", "done"}

\* ------------------------------------------------------------ properties
ReconnectTimers(b) == {t \in BagToSet(b) : t.kind = "reconnect"}
\* the number of reconnect() callbacks pending in a bag of timers
ReconnectPending(b) == BagCardinality(b) - BagCardinality(b (-) [t \in ReconnectTimers(b) |-> b[t]])
ReconnectRunning == \E t \in BagToSet(tasks) : t.op = "reconnect"

\* C1: after an abnormal worker exit, no more than maxReconnectAttempts
\* reconnect attempts are started without a successful connect() in between.
C1_AttemptsBounded == hist.armed => hist.started <= maxReconnectAttempts

\* C2: when a reconnect attempt that followed an abnormal exit while Ready has
\* succeeded, the manager is Ready with the counter at 0 for as long as the
\* replacement worker has not exited and disconnect() has not been called.
C2_StaysReady ==
  hist.readyBy # Null => isClientConnected /\ reconnectAttempts = 0

\* a step of an external connect(): its call or its completion
ExternalConnectStep(B) ==
  \/ ExtConnect(B)
  \/ \E t \in BagToSet(tasks), ok \in BOOLEAN : t.op = "connect" /\ HandshakeSettled(B, t, ok)

\* C3: once maxReconnectAttempts reconnect attempts have failed in a row, the
\* manager is not ready and starts no further attempt; only an external
\* connect() leaves this state.
C3_FailedIsTerminal ==
  [][(hist.failed >= maxReconnectAttempts /\ ~ExternalConnectStep(BSpec))
       => /\ ~isClientConnected'
          /\ hist'.failed = hist.failed
          /\ hist'.started = hist.started]_vars

\* C4: a worker exit with code 0 leaves the reconnect counter alone and arms
\* no reconnect timer, and from then on the manager is not ready until an
\* external connect() is called.
C4_CleanExitStaysDown ==
  [][/\ \A p \in Gens : ProcExit(BDisc, p, 0) =>
          /\ reconnectAttempts' = reconnectAttempts
          /\ ReconnectPending(timers') = ReconnectPending(timers)
     /\ hist'.exit0 => ~isClientConnected']_vars

\* C5: once an external disconnect() has returned, and until an external
\* connect() is called, the manager is not ready, no reconnect timer is armed
\* and no reconnect attempt is started.
C5_NoReconnectAfterDisconnect ==
  [][(hist.explicitDisc /\ hist'.explicitDisc) =>
        /\ ~isClientConnected'
        /\ ReconnectPending(timers') <= ReconnectPending(timers)
        /\ reconnectAttempts' <= reconnectAttempts]_vars

\* a step in which an external disconnect() returns
DisconnectReturns(B) ==
  \/ client = Null /\ ExtDisconnect(B)
  \/ \E t \in BagToSet(tasks), ok \in BOOLEAN : t.op = "disconnect" /\ CloseSettled(B, t, ok)

\* C7: when disconnect() returns, the manager is disconnected and the client,
\* the transport and the subprocess handles are released, whether or not
\* client.close() raised.
C7_DisconnectReleases ==
  [][DisconnectReturns(BDisc) =>
        /\ client' = Null
        /\ transport' = Null
        /\ serverProcess' = Null
        /\ ~isConnected']_vars

\* C8: when the grace period after disconnect()'s SIGTERM expires and the
\* subprocess that was signalled still runs, that subprocess is sent SIGKILL.
C8_KillAfterGrace ==
  [][\A t \in BagToSet(timers) :
        (t.kind = "sigkill" /\ TimerFired(BDisc, t, TRUE) /\ procs[t.target].st = "running")
          => procs'[t.target].sig = "SIGKILL"]_vars

C9_FailureIsLocal ==
  [][\A r \in ReqIds :
        (/\ requests[r].st = "inflight"
         /\ requests'[r].st = "done"
         /\ requests'[r].out \in {"toolError", "error", "timeout"})
          => UNCHANGED <<mgr, timers, tasks>>]_vars

\* a round-trip has failed and the manager is still connected
C9_Witness ==
  \E r \in ReqIds :
    /\ requests[r].out \in {"toolError", "error", "timeout"}
    /\ isClientConnected
    /\ reconnectAttempts = 0

C24_CounterBounded == reconnectAttempts \in 0..maxReconnectAttempts

\* C25: the callback of the forceful-kill timer armed by disconnect() changes
\* no subprocess other than the one that disconnect() was terminating.
C25_KillsOnlyItsTarget ==
  [][\A t \in BagToSet(timers) :
        (t.kind = "sigkill" /\ TimerFired(BSpec, t, TRUE))
          => \A p \in Gens \ {t.target} : procs'[p] = procs[p]]_vars

\* C26: the exit of a worker that an earlier disconnect() signalled and that
\* a later connect() has replaced leaves isConnected as it was and arms no
\* reconnect timer.
C26_StaleExitIgnored ==
  [][\A p \in Gens, code \in {0, 1, NullCode} :
        (procs[p].killed /\ serverProcess \notin {p, Null} /\ ProcExit(BDisc, p, code))
          => /\ isConnected' = isConnected
             /\ ReconnectPending(timers') = ReconnectPending(timers)]_vars

\* C27: every spawned worker that runs and that no disconnect() has
\* signalled is the one the serverProcess handle refers to.
C27_OneLiveWorker ==
  \A p \in Gens : (procs[p].st = "running" /\ ~procs[p].killed) => serverProcess = p

(***************************************************************************)
(* Part 2: ConversationManager (src/src/backend/services/conversation.ts), *)
(* the in-memory conversation store.                                       *)
(*                                                                         *)
(* No operation of the store waits for the outside world: an `await` of    *)
(* another operation of the store goes on in the same turn of the event    *)
(* loop, so each public operation is one action.  The ceilings of the      *)
(* source (100 conversations, 50 messages, 24 hours) are scaled down; the  *)
(* operations are written in terms of their names.                         *)
(***************************************************************************)
\* --------------------------------------------------------------- bounds
\* conversation ids in use (the given ids and the generated ones)
MaxIds == 3
\* the clock stops after this many units of 24 hours
MaxNow == 3
\* ChatMessages created in one execution
MaxMsgIds == 1
\* messages passed to one addMessages() call
MaxBatch == 1
\* the same four bounds for the executions that fill a conversation
MaxIdsAppend == 2
MaxNowAppend == 1
MaxMsgIdsAppend == 3
MaxBatchAppend == 2

\* The bounds of one specification of the store.
StoreBounds(ids, clock, msgs, batch) ==
  [ids |-> 1..ids, clock |-> clock, msgs |-> msgs, batch |-> batch]
BStore == StoreBounds(MaxIds, MaxNow, MaxMsgIds, MaxBatch)
BAppend == StoreBounds(MaxIdsAppend, MaxNowAppend, MaxMsgIdsAppend, MaxBatchAppend)

\* ------------------------------------------------------ program constants
\* private maxConversations: number = 100, scaled
maxConversations == 2
\* private maxMessagesPerConversation: number = 50, scaled
maxMessagesPerConversation == 2
\* const maxAge = 24 * 60 * 60 * 1000, in units of 24 hours
maxAge == 1

\* every conversation id of the model
Ids == 1..(IF MaxIds > MaxIdsAppend THEN MaxIds ELSE MaxIdsAppend)

\* a ChatMessage: its unique id, its role and metadata.error
Message(id, role, error) == [id |-> id, role |-> role, error |-> error]

\* a new ConversationContext, lines 46-56.  all: every message appended to it
\* since it was created (history, read only by the properties)
Conversation(id, t) ==
  [id |-> id, messages |-> << >>, lastActivity |-> t, all |-> << >>]

\* the keys of the Map
StoredIds(cs) == {cs[i].id : i \in DOMAIN cs}
\* the position of a key of the Map
IndexOf(cs, id) == CHOOSE i \in DOMAIN cs : cs[i].id = id
\* this.conversations.get(id), for a key of the Map
Stored(cs, id) == cs[IndexOf(cs, id)]

\* variant: the comparator of line 208 with its operands exchanged, most
\* recently active first
SortByActivityDescending(cs) ==
  LET Rank(i) == Cardinality({j \in DOMAIN cs :
                    \/ cs[j].lastActivity > cs[i].lastActivity
                    \/ cs[j].lastActivity = cs[i].lastActivity /\ j < i}) + 1
  IN [k \in DOMAIN cs |-> cs[CHOOSE i \in DOMAIN cs : Rank(i) = k]]

\* Array.prototype.sort with the comparator of lines 207-209: ascending
\* lastActivity; the sort is stable, so entries that compare equal keep their
\* Map order
SortByActivity(cs) ==
  LET Rank(i) == Cardinality({j \in DOMAIN cs :
                    \/ cs[j].lastActivity < cs[i].lastActivity
                    \/ cs[j].lastActivity = cs[i].lastActivity /\ j < i}) + 1
  IN [k \in DOMAIN cs |-> cs[CHOOSE i \in DOMAIN cs : Rank(i) = k]]

\* variant: a conversation expires when its age reaches maxAge
ExpiredAtMaxAge(c, t) == t - c.lastActivity >= maxAge

\* line 198: now - lastActivity > maxAge
Expired(c, t) == t - c.lastActivity > maxAge

\* variant: the volume phase deletes from the most recently active end of the
\* sorted list, slice(maxConversations)
cleanupKeepsOldest(cs, t) ==
  LET aged == SelectSeq(cs, LAMBDA c : ~Expired(c, t))
  IN IF Len(aged) > maxConversations
       THEN LET sorted == SortByActivity(aged)
                toDelete == {sorted[i].id : i \in (maxConversations + 1)..Len(sorted)}
            IN SelectSeq(aged, LAMBDA c : c.id \notin toDelete)
       ELSE aged

\* cleanupOldConversations(), lines 190-222
cleanupOldConversations(cs, t) ==
  LET aged == SelectSeq(cs, LAMBDA c : ~Expired(c, t))
  IN IF Len(aged) > maxConversations
       THEN LET sorted == SortByActivity(aged)
                toDelete == {sorted[i].id : i \in 1..(Len(sorted) - maxConversations)}
            IN SelectSeq(aged, LAMBDA c : c.id \notin toDelete)
       ELSE aged

\* this.conversations.set(id, conversation), line 58: a new key goes last, a
\* key of the Map keeps its place
MapSet(cs, c) ==
  IF c.id \in StoredIds(cs) THEN [cs EXCEPT ![IndexOf(cs, c.id)] = c] ELSE Append(cs, c)

\* variant: a known conversation is returned without the update of line 40
getOrCreateNoTouch(cs, t, id, fresh) ==
  IF id # Null /\ id \in StoredIds(cs)
  THEN [cs |-> cs, val |-> id]
  ELSE LET newId == IF id # Null THEN id ELSE fresh
           cs1 == MapSet(cs, Conversation(newId, t))
       IN [cs |-> IF Len(cs1) > maxConversations
                    THEN cleanupOldConversations(cs1, t)
                    ELSE cs1,
           val |-> newId]

\* variant: a new conversation is inserted without the size test of line 61
getOrCreateUnbounded(cs, t, id, fresh) ==
  IF id # Null /\ id \in StoredIds(cs)
  THEN [cs |-> [cs EXCEPT ![IndexOf(cs, id)].lastActivity = t], val |-> id]
  ELSE LET newId == IF id # Null THEN id ELSE fresh
       IN [cs |-> MapSet(cs, Conversation(newId, t)), val |-> newId]

\* getOrCreateConversation(conversationId?), lines 37-67; fresh is the id that
\* uuidv4() generates.  The result: the Map and the id of the conversation
\* returned.
getOrCreateConversation(cs, t, id, fresh) ==
  IF id # Null /\ id \in StoredIds(cs)
    THEN [cs |-> [cs EXCEPT ![IndexOf(cs, id)].lastActivity = t], val |-> id]
    ELSE LET newId == IF id # Null THEN id ELSE fresh
             cs1 == MapSet(cs, Conversation(newId, t))
         IN [cs |-> IF Len(cs1) > maxConversations
                      THEN cleanupOldConversations(cs1, t)
                      ELSE cs1,
             val |-> newId]

\* variant: an id that is not stored gets a conversation, as in
\* getOrCreateConversation
getConversationCreating(cs, t, id) ==
  IF id \in StoredIds(cs)
  THEN [cs |-> [cs EXCEPT ![IndexOf(cs, id)].lastActivity = t], val |-> id]
  ELSE [cs |-> MapSet(cs, Conversation(id, t)), val |-> id]

\* variant: a read returns the conversation without the update of line 76
getConversationNoTouch(cs, t, id) ==
  IF id \in StoredIds(cs) THEN [cs |-> cs, val |-> id] ELSE [cs |-> cs, val |-> Null]

\* getConversation(conversationId), lines 72-80
getConversation(cs, t, id) ==
  IF id \in StoredIds(cs)
    THEN [cs |-> [cs EXCEPT ![IndexOf(cs, id)].lastActivity = t], val |-> id]
    ELSE [cs |-> cs, val |-> Null]

\* variant: the truncation keeps the head of the list, slice(0, max)
FirstN(ms, n) == IF Len(ms) > n THEN SubSeq(ms, 1, n) ELSE ms

\* messages.slice(-n), line 94
LastN(ms, n) == IF Len(ms) > n THEN SubSeq(ms, Len(ms) - n + 1, Len(ms)) ELSE ms

\* getConversationHistory(conversationId, limit?), lines 114-128; limit 0
\* stands for an absent limit.  The result: the Map and the messages returned.
getConversationHistory(cs, t, id, limit) ==
  LET r == getConversation(cs, t, id)
  IN [cs |-> r.cs,
      val |-> IF r.val = Null THEN << >>
              ELSE IF limit > 0 THEN LastN(Stored(r.cs, id).messages, limit)
              ELSE Stored(r.cs, id).messages]

\* exportConversation(conversationId), lines 293-301: the conversation that
\* JSON.stringify serializes, or null
exportConversation(cs, t, id) ==
  LET r == getConversation(cs, t, id)
  IN [cs |-> r.cs, val |-> IF r.val = Null THEN Null ELSE Stored(r.cs, id)]

\* updateConversation after its await, lines 88-97: the push, the truncation
\* and the update of lastActivity go to the object that
\* getOrCreateConversation returned; when that object is not in the Map, the
\* Map does not change.
pushMessage(cs, t, id, m) ==
  IF id \in StoredIds(cs)
    THEN LET i == IndexOf(cs, id)
             pushed == Append(cs[i].messages, m)
         IN [cs EXCEPT ![i].messages =
                           IF Len(pushed) > maxMessagesPerConversation
                             THEN LastN(pushed, maxMessagesPerConversation)
                             ELSE pushed,
                       ![i].all = Append(@, m),
                       ![i].lastActivity = t]
    ELSE cs

\* updateConversation(conversationId, message), lines 85-100, run from its
\* call to its return
updateConversation(cs, t, id, m, fresh) ==
  LET r == getOrCreateConversation(cs, t, id, fresh)
  IN pushMessage(r.cs, t, r.val, m)

\* addMessages(conversationId, messages), lines 105-109
RECURSIVE addMessages(_, _, _, _, _)
addMessages(cs, t, id, ms, fresh) ==
  IF ms = << >> THEN cs
  ELSE addMessages(updateConversation(cs, t, id, Head(ms), fresh), t, id, Tail(ms), fresh)

\* deleteConversation(conversationId), lines 133-141
deleteConversation(cs, id) == SelectSeq(cs, LAMBDA c : c.id # id)

\* updateMCPState(conversationId, mcpState), lines 178-185 (the capability
\* snapshot itself is not modelled)
updateMCPState(cs, t, id, fresh) ==
  LET r == getOrCreateConversation(cs, t, id, fresh)
  IN IF r.val \in StoredIds(r.cs)
       THEN [r.cs EXCEPT ![IndexOf(r.cs, r.val)].lastActivity = t]
       ELSE r.cs

\* ------------------------------------------------------- store actions
\* the ids uuidv4() can generate: any id that is not a key of the Map
FreshIds(B) == B.ids \ StoredIds(conversations)

\* line 198, for a conversation of the Map before the operation
OverAge(i) == now - conversations[i].lastActivity > maxAge

\* History of an operation that returned val and left the Map cs: the
\* conversations it removed, over age and within age, and whether the
\* lastActivity times were pairwise distinct before it.
Outcome(op, val, cs) ==
  LET gone == {i \in DOMAIN conversations : conversations[i].id \notin StoredIds(cs)}
  IN [op |-> op, val |-> val,
      age |-> {conversations[i].id : i \in {j \in gone : OverAge(j)}},
      volume |-> {conversations[i].id : i \in {j \in gone : ~OverAge(j)}},
      distinct |-> /\ gone # {}
                   /\ \A i, j \in DOMAIN conversations :
                        conversations[i].lastActivity = conversations[j].lastActivity => i = j]

GetOrCreateCall(B, id) ==
  /\ \E fresh \in (IF id = Null THEN FreshIds(B) ELSE {id}) :
       LET r == getOrCreateConversation(conversations, now, id, fresh)
       IN /\ conversations' = r.cs
          /\ last' = Outcome("getOrCreate", r.val, r.cs)
  /\ UNCHANGED <<now, conn, chat, loop>>

GetCall(id) ==
  /\ LET r == getConversation(conversations, now, id)
     IN /\ conversations' = r.cs
        /\ last' = Outcome("get", r.val, r.cs)
  /\ UNCHANGED <<now, conn, chat, loop>>

GetHistoryCall(id, limit) ==
  /\ LET r == getConversationHistory(conversations, now, id, limit)
     IN /\ conversations' = r.cs
        /\ last' = Outcome("get", IF id \in StoredIds(r.cs) THEN id ELSE Null, r.cs)
  /\ UNCHANGED <<now, conn, chat, loop>>

ExportCall(id) ==
  /\ LET r == exportConversation(conversations, now, id)
     IN /\ conversations' = r.cs
        /\ last' = Outcome("get", IF id \in StoredIds(r.cs) THEN id ELSE Null, r.cs)
  /\ UNCHANGED <<now, conn, chat, loop>>

UpdateCall(B, id) ==
  /\ msgIds < B.msgs
  /\ msgIds' = msgIds + 1
  /\ LET cs == updateConversation(conversations, now, id,
                                  Message(msgIds + 1, "user", FALSE), id)
     IN /\ conversations' = cs
        /\ last' = Outcome("none", Null, cs)
  /\ UNCHANGED <<now, conn, turn, http, loop>>

AddMessagesCall(B, id, n) ==
  /\ msgIds + n <= B.msgs
  /\ msgIds' = msgIds + n
  /\ LET cs == addMessages(conversations, now, id,
                           [k \in 1..n |-> Message(msgIds + k, "user", FALSE)], id)
     IN /\ conversations' = cs
        /\ last' = Outcome("none", Null, cs)
  /\ UNCHANGED <<now, conn, turn, http, loop>>

DeleteCall(id) ==
  /\ conversations' = deleteConversation(conversations, id)
  /\ last' = NoLast
  /\ UNCHANGED <<now, conn, chat, loop>>

UpdateMCPStateCall(id) ==
  /\ LET cs == updateMCPState(conversations, now, id, id)
     IN /\ conversations' = cs
        /\ last' = Outcome("none", Null, cs)
  /\ UNCHANGED <<now, conn, chat, loop>>

\* the setInterval callback of the constructor, lines 29-31
Sweep ==
  /\ LET cs == cleanupOldConversations(conversations, now)
     IN /\ conversations' = cs
        /\ last' = Outcome("none", Null, cs)
  /\ UNCHANGED <<now, conn, chat, loop>>

\* time passes
Advance(B) ==
  /\ now < B.clock
  /\ now' = now + 1
  /\ UNCHANGED <<conversations, last, conn, chat, loop>>

StoreCalls(B) ==
  \/ \E id \in B.ids \cup {Null} : GetOrCreateCall(B, id)
  \/ \E id \in B.ids : GetCall(id)
  \/ \E id \in B.ids, limit \in 0..1 : GetHistoryCall(id, limit)
  \/ \E id \in B.ids : ExportCall(id)
  \/ \E id \in B.ids : UpdateCall(B, id)
  \/ \E id \in B.ids, n \in 0..B.batch : AddMessagesCall(B, id, n)
  \/ \E id \in B.ids : DeleteCall(id)
  \/ \E id \in B.ids : UpdateMCPStateCall(id)

\* the store with its ceilings under pressure: many ids, a long clock
NextStore == StoreCalls(BStore) \/ Sweep \/ Advance(BStore)
SpecStore == Init /\ [][NextStore]_vars

\* the store with one conversation filled beyond its message ceiling
NextAppend == StoreCalls(BAppend) \/ Sweep \/ Advance(BAppend)
SpecAppend == Init /\ [][NextAppend]_vars

StoreTypeOK ==
  /\ now \in Nat
  /\ \A i \in DOMAIN conversations :
       /\ conversations[i].id \in Ids
       /\ conversations[i].lastActivity \in 0..now
  /\ \A i, j \in DOMAIN conversations : conversations[i].id = conversations[j].id => i = j

(***************************************************************************)
(* Part 3.  ChatService.processMessage (chat.ts): one turn.                *)
(*                                                                         *)
(* A turn is suspended at four awaits: mcpClient.listTools(), the          *)
(* classification call to OpenAI, each mcpClient.callTool() and the        *)
(* synthesis call to OpenAI.  Each action below is one such promise        *)
(* settling, followed by the code up to the next await.  What the          *)
(* MCPClientService calls return or throw is taken from Part 1             *)
(* (CallerOutcome and the not-connected guard); the two OpenAI calls       *)
(* succeed or throw.  turn.log records, in order, the calls issued, the    *)
(* calls that returned or threw and the start of the synthesis.             *)
(***************************************************************************)

\* ------------------------------------------------------------------ bounds
\* suggestedTools entries in one classification
MaxTools == 2
\* processMessage invocations in one execution
MaxTurns == 2
\* conversation ids of the turns
MaxIdsTurn == 2

\* tool names a classification can propose: one of the catalog, one not
ToolNames == {"calculator", "unknown_tool"}

\* manager: whether the MCPClientService of Part 1 runs in the specification
TurnBounds(ids, turns, tools, manager) ==
  [ids |-> 1..ids, turns |-> turns, tools |-> tools, manager |-> manager]
BTurn == TurnBounds(MaxIdsTurn, MaxTurns, MaxTools, FALSE)

RECURSIVE SeqsUpTo(_, _)
SeqsUpTo(S, n) ==
  IF n = 0 THEN {<< >>}
  ELSE LET shorter == SeqsUpTo(S, n - 1)
       IN shorter \cup {Append(q, x) : q \in {r \in shorter : Len(r) = n - 1}, x \in S}

\* ------------------------------------------------------- the MCP client
\* what `await this.mcpClient.<kind>(...)` gives the turn: a value returned,
\* or one of the errors thrown (the guard's, or the rethrown SDK error)
ClientOutcomes(kind) ==
  {CallerOutcome(kind, res) : res \in SdkOutcomes(kind)} \cup {"notConnected"}
Throws(out) == out \in {"notConnected", "error", "timeout"}

\* The guard of listTools() and of callTool(), lines 160-162 and 229-231, as
\* the turn finds it when it makes the call: the manager's isClientConnected()
\* and client, or either value when the manager is not part of the
\* specification.
Guards(B) == IF B.manager THEN {RequestAllowed} ELSE BOOLEAN

\* variant: the request is sent whatever the guard found
SettlesUnguarded(t, kind) == {CallerOutcome(kind, res) : res \in SdkOutcomes(kind)}

\* what the call that the turn awaits can settle with: it threw at its guard
\* (t.sent is false), or its request was sent and the SDK settles it
Settles(t, kind) ==
  IF t.sent THEN {CallerOutcome(kind, res) : res \in SdkOutcomes(kind)}
            ELSE {"notConnected"}

\* --------------------------------------------------- analyzeUserIntention
\* an optional field (MCPAction.result?, MCPAction.error?, a key that the
\* classification's JSON does not have) that is not set
Unset == "unset"

\* variant: the default carries no category
NoToolsUncategorized ==
  [needsMCPTools |-> FALSE, suggestedTools |-> << >>, category |-> Unset]

\* the default of lines 194, 197 and 209-213
NoTools == [needsMCPTools |-> FALSE, suggestedTools |-> << >>, category |-> "general"]

\* lines 199-203: the analysis parsed, `category || 'general'`
Defaults(analysis) ==
  [analysis EXCEPT !.category = IF @ = Unset THEN "general" ELSE @]

\* the replies that lines 207-214, 194 and 197 answer with the default: the
\* call threw, or its content holds no JSON even inside its braces
FailedForms == {"failed", "wrappedBad", "text"}

\* The classification call settles with reply: it throws ("failed"), or
\* returns content that is null ("empty"), a JSON object ("json"), a JSON
\* object wrapped in text ("wrapped"), text with braces that do not hold
\* JSON ("wrappedBad") or text without braces ("text").  Lines 175-205.
ReplyForms == {"failed", "empty", "json", "wrapped", "wrappedBad", "text"}
ParseIntention(reply) ==
  CASE reply.form = "failed" -> NoTools                    \* catch, lines 207-214
    [] reply.form = "empty" -> NoTools                     \* '{}', then the || defaults
    [] reply.form = "json" -> Defaults(reply.analysis)     \* JSON.parse, line 181
    [] reply.form = "wrapped" -> Defaults(reply.analysis)  \* match and JSON.parse, 187-191
    [] reply.form = "wrappedBad" -> NoTools                \* line 194
    [] reply.form = "text" -> NoTools                      \* line 197

\* ------------------------------------------------------- executeMCPTools
Event(e, i) == [e |-> e, i |-> i]

\* variant: the action is put at the head of the array (unshift)
Unshift(actions, a) == <<a>> \o actions

\* mcpActions.push(action), lines 238 and 258
Push(actions, a) == Append(actions, a)

\* lines 230-238: callTool returned out
ToolReturned(t, out) ==
  [t EXCEPT !.mcpActions = Push(@, [name |-> t.suggestedTools[t.i], result |-> out, error |-> Unset])]

\* variant: the error leaves the loop, there is no catch inside it
ToolThrewAborts(t, out) ==
  [t EXCEPT !.pc = "raised"]

\* lines 249-261: callTool threw out
ToolThrew(t, out) ==
  [t EXCEPT !.mcpActions = Push(@, [name |-> t.suggestedTools[t.i], result |-> Unset, error |-> out])]

\* the for-of of line 226 goes to its next element and awaits callTool,
\* line 236; after the last one executeMCPTools returns and processMessage
\* awaits generateOpenAIResponse, lines 67-72 and 319
NextTool(t, allowed) ==
  IF t.i < Len(t.suggestedTools)
    THEN [t EXCEPT !.pc = "tool", !.i = t.i + 1, !.sent = allowed,
                   !.log = Append(@, Event("call", t.i + 1))]
    ELSE [t EXCEPT !.pc = "synthesis", !.sent = FALSE,
                   !.log = Append(@, Event("synthesis", 0))]

\* ------------------------------------------------------- processMessage
\* lines 49-57 and 128: the turn starts and awaits listTools().  ready: what
\* the guard of listTools() found (history, read only by the properties)
processMessage(conversationId, fresh, allowed) ==
  [NoTurn EXCEPT !.pc = "listTools",
                 !.conversationId = IF conversationId # Null THEN conversationId ELSE fresh,
                 !.ready = allowed,
                 !.sent = allowed]

\* lines 57-72 once the intention is known
Classified(t, intention, allowed) ==
  LET t1 == [t EXCEPT !.needsMCPTools = intention.needsMCPTools,
                      !.suggestedTools = intention.suggestedTools,
                      !.category = intention.category]
  IN IF intention.needsMCPTools /\ Len(intention.suggestedTools) > 0
       THEN NextTool(t1, allowed)
       ELSE [t1 EXCEPT !.pc = "synthesis", !.sent = FALSE,
                       !.log = Append(@, Event("synthesis", 0))]

\* lines 75-96: the turn returns the assistant message
Returned(t, id) ==
  [t EXCEPT !.pc = "returned",
            !.response = [message |-> Message(id, "assistant", FALSE),
                          conversationId |-> t.conversationId,
                          mcpActions |-> t.mcpActions]]

\* variant: the error is thrown on to the caller of processMessage
Rethrown(t, id) == [t EXCEPT !.pc = "threw"]

\* lines 98-115: the catch of processMessage
Caught(t, id) ==
  [t EXCEPT !.pc = "returned",
            !.response = [message |-> Message(id, "assistant", TRUE),
                          conversationId |-> t.conversationId,
                          mcpActions |-> t.mcpActions]]

\* -------------------------------------------------------- turn actions
\* what a classification can answer
Analyses(B) ==
  {[needsMCPTools |-> n, suggestedTools |-> q, category |-> c] :
     n \in BOOLEAN, q \in SeqsUpTo(ToolNames, B.tools), c \in {"math", Unset}}
Replies(B) ==
  {[form |-> f, analysis |-> a] : f \in {"json", "wrapped"}, a \in Analyses(B)}
    \cup {[form |-> f, analysis |-> NoTools] : f \in ReplyForms \ {"json", "wrapped"}}

\* processMessage(userMessage, conversationId?) is called
TurnStart(B, conversationId) ==
  /\ turn.pc \in {"idle", "returned", "threw"}
  /\ http.pc = "idle"
  /\ msgIds < B.turns
  /\ \E fresh \in (IF conversationId = Null THEN B.ids \ StoredIds(conversations)
                                            ELSE {conversationId}),
        allowed \in Guards(B) :
       turn' = processMessage(conversationId, fresh, allowed)
  /\ UNCHANGED <<msgIds, http, conn, store, loop>>

\* `await this.mcpClient.listTools()` settles, line 128
ListToolsSettled(out) ==
  /\ turn.pc = "listTools"
  /\ out \in Settles(turn, "listTools")
  /\ turn' = IF Throws(out)
               THEN Classified([turn EXCEPT !.log = Append(@, Event("listFailed", 0))],
                               NoTools, FALSE)
               ELSE [turn EXCEPT !.pc = "classify", !.sent = FALSE]
  /\ UNCHANGED <<msgIds, http, conn, store, loop>>

\* `await this.openai.chat.completions.create(...)` of line 168 settles
ClassifySettled(B, reply) ==
  /\ turn.pc = "classify"
  /\ \E allowed \in Guards(B) :
       turn' = Classified(IF reply.form \in FailedForms
                            THEN [turn EXCEPT !.log = Append(@, Event("classifyFailed", 0))]
                            ELSE turn,
                          ParseIntention(reply), allowed)
  /\ UNCHANGED <<msgIds, http, conn, store, loop>>

\* `await this.mcpClient.callTool(...)` settles, line 236
ToolSettled(B, out) ==
  /\ turn.pc = "tool"
  /\ out \in Settles(turn, "callTool")
  /\ LET done == [turn EXCEPT !.log = Append(@, Event(IF Throws(out) THEN "threw" ELSE "returned",
                                                       turn.i))]
         t == IF Throws(out) THEN ToolThrew(done, out) ELSE ToolReturned(done, out)
     IN IF t.pc = "raised"
          THEN /\ turn' = Caught(t, msgIds + 1)
               /\ msgIds' = msgIds + 1
          ELSE /\ \E allowed \in Guards(B) : turn' = NextTool(t, allowed)
               /\ UNCHANGED msgIds
  /\ UNCHANGED <<http, conn, store, loop>>

\* `await this.openai.chat.completions.create(...)` of line 319 settles;
\* when it throws, generateOpenAIResponse throws a new Error, lines 330-338
SynthesisSettled(ok) ==
  /\ turn.pc = "synthesis"
  /\ msgIds' = msgIds + 1
  /\ turn' = IF ok THEN Returned(turn, msgIds + 1)
                   ELSE Caught([turn EXCEPT !.log = Append(@, Event("synthesisFailed", 0))],
                               msgIds + 1)
  /\ UNCHANGED <<http, conn, store, loop>>

TurnSteps(B) ==
  \/ \E out \in ClientOutcomes("listTools") : ListToolsSettled(out)
  \/ \E reply \in Replies(B) : ClassifySettled(B, reply)
  \/ \E out \in ClientOutcomes("callTool") : ToolSettled(B, out)
  \/ \E ok \in BOOLEAN : SynthesisSettled(ok)

NextTurn == (\E id \in BTurn.ids \cup {Null} : TurnStart(BTurn, id)) \/ TurnSteps(BTurn)
SpecTurn == Init /\ [][NextTurn]_vars

\* The turn with the manager of Part 1: each guard of listTools() and of
\* callTool() is the manager's, at the step that makes the call.  The manager
\* connects and loses its worker; it is not disconnected and its reconnect
\* timers do not run, which is enough for the guard to change either way
\* at any point of a turn.
MaxSpawnBridge == 1
MaxCallsBridge == 1
MaxIdsBridge == 1
MaxTurnsBridge == 1
MaxToolsBridge == 1
BBridgeManager == Bounds(MaxSpawnBridge, MaxCallsBridge, 0, {}, {})
BBridge == TurnBounds(MaxIdsBridge, MaxTurnsBridge, MaxToolsBridge, TRUE)
NextBridge ==
  \/ ExtConnect(BBridgeManager)
  \/ \E t \in BagToSet(tasks), ok \in BOOLEAN : HandshakeSettled(BBridgeManager, t, ok)
  \/ \E p \in Gens, code \in {0, 1, NullCode} : ProcExit(BBridgeManager, p, code)
  \/ \E p \in Gens : ProcError(BBridgeManager, p)
  \/ \E id \in BBridge.ids \cup {Null} : TurnStart(BBridge, id)
  \/ TurnSteps(BBridge)
SpecBridge == Init /\ [][NextBridge]_vars

TurnTypeOK ==
  /\ turn.pc \in {"idle", "listTools", "classify", "tool", "synthesis", "returned", "threw"}
  /\ turn.i \in 0..Len(turn.suggestedTools)
  /\ msgIds \in Nat

(***************************************************************************)
(* Part 4.  POST /api/chat and GET /api/conversations/:id (app.ts).        *)
(*                                                                         *)
(* The chat handler validates the body, awaits processMessage and, when    *)
(* the turn has returned, stores response.message with updateConversation  *)
(* and answers.  One chat request is handled at a time.                    *)
(***************************************************************************)

\* the bounds of the turns started by chat requests
MaxIdsChat == 2
MaxTurnsChat == 2
MaxToolsChat == 1
BChat == TurnBounds(MaxIdsChat, MaxTurnsChat, MaxToolsChat, FALSE)

\* req.body.message: missing or blank, a string with text, or not a string
Bodies == {"empty", "text", "notString"}

\* lines 159-165
InternalError == [NoRequest EXCEPT !.pc = "responded", !.status = 500]

\* POST /api/chat arrives, lines 125-140
ChatPost(B, body, conversationId) ==
  /\ http.pc \in {"idle", "responded"}
  /\ turn.pc \in {"idle", "returned", "threw"}
  /\ msgIds < B.turns
  /\ CASE body = "empty" ->                       \* lines 129-134
            /\ http' = [NoRequest EXCEPT !.pc = "responded", !.status = 400]
            /\ UNCHANGED turn
       [] body = "notString" ->                   \* message.trim is not a function
            /\ http' = InternalError
            /\ UNCHANGED turn
       [] body = "text" ->
            /\ http' = [NoRequest EXCEPT !.pc = "awaiting", !.conversationId = conversationId]
            /\ \E fresh \in (IF conversationId = Null THEN B.ids \ StoredIds(conversations)
                                                      ELSE {conversationId}),
                  allowed \in Guards(B) :
                 turn' = processMessage(conversationId, fresh, allowed)
  /\ UNCHANGED <<msgIds, conn, store, loop>>

\* processMessage has settled: lines 143-157, or the catch of lines 159-165
ChatResume ==
  /\ http.pc = "awaiting"
  /\ turn.pc \in {"returned", "threw"}
  /\ IF turn.pc = "threw"
       THEN /\ http' = InternalError
            /\ UNCHANGED store
       ELSE LET response == turn.response
                cs == updateConversation(conversations, now, response.conversationId,
                                         response.message, response.conversationId)
            IN /\ conversations' = cs
               /\ last' = Outcome("none", Null, cs)
               /\ http' = [http EXCEPT !.pc = "responded", !.status = 200, !.data = response]
               /\ UNCHANGED now
  /\ UNCHANGED <<msgIds, turn, conn, loop>>

NextChat ==
  \/ \E body \in Bodies, id \in BChat.ids \cup {Null} : ChatPost(BChat, body, id)
  \/ TurnSteps(BChat)
  \/ ChatResume
  \/ \E id \in BChat.ids : GetCall(id)
SpecChat == Init /\ [][NextChat]_vars

(***************************************************************************)
(* Part 5.  Chat requests that overlap (app.ts, chat.ts, conversation.ts). *)
(*                                                                         *)
(* Node runs one callback at a time.  A callback that the outside world    *)
(* triggers (a request that arrives, a reply of the model provider, a      *)
(* timer) is a macrotask; the continuation of an await on a promise that   *)
(* is already settled is a microtask, and the microtask queue is emptied,  *)
(* first in first out, before the next macrotask runs.  The awaits inside  *)
(* a turn (Part 3) touch nothing that turns share, so a turn is one        *)
(* suspension here.  When it settles, processMessage registers its         *)
(* statistics and returns, and the handler goes on in microtasks: it       *)
(* calls updateConversation, which awaits getOrCreateConversation, pushes  *)
(* the message, and the handler answers.                                   *)
(***************************************************************************)

\* chat requests in one execution
MaxPosts == 2
\* conversation ids of the requests
MaxIdsLoop == 2
\* clock values
MaxNowLoop == 2

LoopBounds(ids, reqs, clock) == [ids |-> 1..ids, posts |-> reqs, clock |-> clock]
BLoop == LoopBounds(MaxIdsLoop, MaxPosts, MaxNowLoop)

\* variant: a macrotask runs although continuations are queued
MacrotaskMayRunAnytime(q) == TRUE

\* the event loop takes the next macrotask when the microtask queue is empty
MacrotaskMayRun(q) == q = << >>

\* variant: the sample replaces the array and the counter is set, not
\* incremented
RegisteredBySetting(k, n) ==
  [responseTimes |-> <<k>>, toolCallCount |-> IF n > 0 THEN 1 ELSE toolCallCount]

\* chat.ts lines 85-88, for turn k with n entries in mcpActions
Registered(k, n) ==
  [responseTimes |-> Append(responseTimes, k),
   toolCallCount |-> IF n > 0 THEN toolCallCount + 1 ELSE toolCallCount]

\* the conversation ids of the requests so far
PostedIds == {posts[k].conversationId : k \in DOMAIN posts}

\* POST /api/chat arrives with a message, app.ts lines 125-140, and
\* processMessage starts, chat.ts lines 49-57
Post(B, conversationId) ==
  /\ MacrotaskMayRun(micro)
  /\ Len(posts) < B.posts
  /\ \E fresh \in (IF conversationId = Null
                     THEN B.ids \ (StoredIds(conversations) \cup PostedIds)
                     ELSE {conversationId}) :
       posts' = Append(posts, [pc |-> "turn", conversationId |-> fresh,
                               actions |-> 0, error |-> FALSE, lost |-> FALSE])
  /\ UNCHANGED <<micro, issued, toolCallCount, responseTimes, conn, store, chat>>

\* The last await of turn k settles.  ok: processMessage registers the
\* statistics and returns the reply, chat.ts lines 75-96; otherwise its catch
\* returns the error message, lines 98-115.  n: the entries of mcpActions.
\* The handler's continuation is queued.
TurnSettled(k, n, ok) ==
  /\ MacrotaskMayRun(micro)
  /\ k \in DOMAIN posts
  /\ posts[k].pc = "turn"
  /\ posts' = [posts EXCEPT ![k].pc = "store", ![k].actions = n, ![k].error = ~ok]
  /\ micro' = Append(micro, k)
  /\ toolCallCount' = IF ok THEN Registered(k, n).toolCallCount ELSE toolCallCount
  /\ responseTimes' = IF ok THEN Registered(k, n).responseTimes ELSE responseTimes
  /\ UNCHANGED <<issued, conn, store, chat>>

\* the message that request k stores
Reply(k) == Message(k, "assistant", posts[k].error)

\* app.ts line 143 and conversation.ts line 86: the handler calls
\* updateConversation, which calls getOrCreateConversation and awaits its
\* promise
StoreBegins(k) ==
  /\ micro # << >> /\ Head(micro) = k
  /\ posts[k].pc = "store"
  /\ LET r == getOrCreateConversation(conversations, now, posts[k].conversationId,
                                      posts[k].conversationId)
     IN /\ conversations' = r.cs
        /\ last' = Outcome("none", Null, r.cs)
  /\ issued' = Append(issued, [conversationId |-> posts[k].conversationId, message |-> Reply(k)])
  /\ posts' = [posts EXCEPT ![k].pc = "push"]
  /\ micro' = Append(Tail(micro), k)
  /\ UNCHANGED <<now, toolCallCount, responseTimes, conn, chat>>

\* conversation.ts lines 88-99: updateConversation resumes, pushes and returns
StorePushes(k) ==
  /\ micro # << >> /\ Head(micro) = k
  /\ posts[k].pc = "push"
  /\ LET cs == pushMessage(conversations, now, posts[k].conversationId, Reply(k))
     IN /\ conversations' = cs
        /\ last' = Outcome("none", Null, cs)
  /\ posts' = [posts EXCEPT ![k].pc = "respond",
                            ![k].lost = posts[k].conversationId \notin StoredIds(conversations)]
  /\ micro' = Append(Tail(micro), k)
  /\ UNCHANGED <<now, issued, toolCallCount, responseTimes, conn, chat>>

\* app.ts lines 146-154: the handler resumes and answers
Responds(k) ==
  /\ micro # << >> /\ Head(micro) = k
  /\ posts[k].pc = "respond"
  /\ posts' = [posts EXCEPT ![k].pc = "done"]
  /\ micro' = Tail(micro)
  /\ UNCHANGED <<issued, toolCallCount, responseTimes, conn, store, chat>>

\* the requests, with the cleanup timer and the clock as the other macrotasks
NextLoop ==
  \/ \E id \in BLoop.ids \cup {Null} : Post(BLoop, id)
  \/ \E k \in DOMAIN posts, n \in 0..1, ok \in BOOLEAN : TurnSettled(k, n, ok)
  \/ \E k \in DOMAIN posts : StoreBegins(k)
  \/ \E k \in DOMAIN posts : StorePushes(k)
  \/ \E k \in DOMAIN posts : Responds(k)
  \/ MacrotaskMayRun(micro) /\ Sweep
  \/ MacrotaskMayRun(micro) /\ Advance(BLoop)
SpecLoop == Init /\ [][NextLoop]_vars

LoopTypeOK ==
  /\ \A k \in DOMAIN posts :
       posts[k].pc \in {"turn", "store", "push", "respond", "done"}
  /\ \A i \in DOMAIN micro : micro[i] \in DOMAIN posts
  /\ toolCallCount \in Nat

\* ------------------------------------------------------ store properties

\* C14: the message list of every stored conversation is the last min(k, max)
\* of the k messages appended to it since it was created, in append order,
\* so it never holds more than maxMessagesPerConversation messages.
C14_LastMessagesKept ==
  \A i \in DOMAIN conversations :
    LET c == conversations[i]
        k == Len(c.all)
        n == IF k < maxMessagesPerConversation THEN k ELSE maxMessagesPerConversation
    IN /\ Len(c.messages) = n
       /\ \A j \in 1..n : c.messages[j] = c.all[k - n + j]

\* a conversation has received more messages than it may hold
C14_Witness ==
  \E i \in DOMAIN conversations :
    /\ Len(conversations[i].all) > maxMessagesPerConversation
    /\ Len(conversations[i].messages) = maxMessagesPerConversation

\* C15: after every operation of the store (getOrCreate, append,
\* updateMCPState, delete, sweep) the number of stored conversations is at
\* most maxConversations.
C15_CountBounded == Len(conversations) <= maxConversations

\* the last operation created a conversation over the ceiling and removed a
\* live one to return to it
C15_Witness ==
  /\ last.volume # {}
  /\ Len(conversations) = maxConversations

\* A step that creates a conversation while the store is at its ceiling, the
\* stored conversations having pairwise distinct lastActivity times.
CreatesOverCeiling ==
  /\ StoredIds(conversations') \ StoredIds(conversations) # {}
  /\ Len(conversations) >= maxConversations
  /\ \A i, j \in DOMAIN conversations :
       conversations[i].lastActivity = conversations[j].lastActivity => i = j

\* the conversations of the store that the step removes
Evicted == {i \in DOMAIN conversations : conversations[i].id \notin StoredIds(conversations')}

\* no conversation is removed while a less recently active one is kept
LeastRecentEvicted ==
  \A i \in Evicted, j \in DOMAIN conversations \ Evicted :
    conversations[i].lastActivity < conversations[j].lastActivity

\* C16 as stated: a creation over the ceiling removes the least recently
\* active conversations only, and no more of them than it takes for the
\* count to equal the ceiling.
C16_EvictsOnlyToCeiling ==
  [][CreatesOverCeiling =>
       /\ LeastRecentEvicted
       /\ Len(conversations') = maxConversations]_vars

\* C16 amended: a creation over the ceiling removes every conversation that
\* is over age and then, least recently active first, as many of the others
\* as it takes for the count to equal the ceiling; the count may end below
\* the ceiling only through the removal of over-age conversations.
C16_EvictsLeastRecent ==
  [][CreatesOverCeiling =>
       LET aged == {i \in DOMAIN conversations : OverAge(i)}
           rest == Len(conversations) + 1 - Cardinality(aged)
       IN /\ LeastRecentEvicted
          /\ aged \subseteq Evicted
          /\ Cardinality(Evicted \ aged) =
               (IF rest > maxConversations THEN rest - maxConversations ELSE 0)
          /\ Len(conversations') = (IF rest > maxConversations THEN maxConversations ELSE rest)]_vars

\* a creation over the ceiling has removed the least recently active of the
\* conversations, all within age and with distinct lastActivity times
C16_Witness ==
  /\ last.distinct
  /\ last.volume # {}
  /\ last.age = {}
  /\ Len(conversations) = maxConversations

\* A step in which cleanupOldConversations() runs: the hourly timer, or the
\* creation of a conversation that takes the count over the ceiling.
CleanupRuns ==
  \/ Sweep
  \/ /\ StoredIds(conversations') \ StoredIds(conversations) # {}
     /\ Len(conversations) >= maxConversations

\* C17: cleanupOldConversations() applies age before volume.  When it has
\* run no stored conversation is older than maxAge and the count is at most
\* the ceiling; a conversation within maxAge is removed only if the
\* conversations within maxAge alone exceed the ceiling, and then no
\* conversation less recently active than it is kept.
C17_AgeBeforeVolume ==
  [][CleanupRuns =>
       LET within == {i \in DOMAIN conversations : now - conversations[i].lastActivity <= maxAge}
           created == StoredIds(conversations') \ StoredIds(conversations)
       IN /\ \A j \in DOMAIN conversations' : now - conversations'[j].lastActivity <= maxAge
          /\ Len(conversations') <= maxConversations
          /\ \A i \in Evicted \cap within :
               /\ Cardinality(within) + Cardinality(created) > maxConversations
               /\ \A j \in DOMAIN conversations \ Evicted :
                    conversations[i].lastActivity <= conversations[j].lastActivity]_vars

\* the cleanup has removed an over-age conversation and kept a live one
C17_Witness ==
  /\ last.age # {}
  /\ last.volume = {}
  /\ conversations # << >>

\* the message list of every conversation stored before and after the step
\* is the same
MessagesKept ==
  \A i \in DOMAIN conversations, j \in DOMAIN conversations' :
    conversations[i].id = conversations'[j].id =>
      conversations'[j].messages = conversations[i].messages

\* C18: getOrCreateConversation(id) with a stored id returns that
\* conversation, creates nothing and leaves its messages as they were; with
\* an id that is not stored, or none, it inserts exactly one conversation,
\* with no messages, under the given id or under a new id that no stored
\* conversation has.  The conversation returned has lastActivity = now.
C18_GetOrCreate ==
  [][\A id \in Ids \cup {Null} :
       (last'.op = "getOrCreate" /\ GetOrCreateCall(BStore, id)) =>
         LET val == last'.val
             created == StoredIds(conversations') \ StoredIds(conversations)
         IN /\ val \in StoredIds(conversations')
            /\ Stored(conversations', val).lastActivity = now
            /\ MessagesKept
            /\ IF id # Null /\ id \in StoredIds(conversations)
                 THEN /\ val = id
                      /\ created = {}
                      /\ StoredIds(conversations') = StoredIds(conversations)
                 ELSE /\ id # Null => val = id
                      /\ val \notin StoredIds(conversations)
                      /\ created = {val}
                      /\ Stored(conversations', val).messages = << >>]_vars

\* getOrCreateConversation has returned a conversation that was stored, with
\* messages, before the call
C18_Witness ==
  /\ last.op = "getOrCreate"
  /\ last.val \in StoredIds(conversations)
  /\ Stored(conversations, last.val).messages # << >>
  /\ Stored(conversations, last.val).lastActivity = now
  /\ now > 0

\* C19: getConversation(id) returns the stored conversation when id is
\* stored and null otherwise; it creates no conversation, removes none and
\* changes no message list.
C19_GetIsReadOnly ==
  [][\A id \in Ids :
       (last'.op = "get" /\ GetCall(id)) =>
         /\ last'.val = (IF id \in StoredIds(conversations) THEN id ELSE Null)
         /\ StoredIds(conversations') = StoredIds(conversations)
         /\ Len(conversations') = Len(conversations)
         /\ MessagesKept]_vars

\* getConversation has returned a stored conversation that has messages,
\* while another id is not stored
C19_Witness ==
  /\ last.op = "get"
  /\ last.val \in StoredIds(conversations)
  /\ Stored(conversations, last.val).messages # << >>
  /\ Ids \ StoredIds(conversations) # {}

\* ------------------------------------------------------- turn properties
Logged(e) == {k \in DOMAIN turn.log : turn.log[k].e = e}
Attempted == {turn.log[k].i : k \in Logged("call")}

\* C11: processMessage never throws to its caller.  Whatever fails among
\* listTools, the classification, the tool calls and the synthesis, it
\* returns {message, conversationId, mcpActions} with an assistant message;
\* when the synthesis call failed the message carries the error flag and
\* mcpActions has an entry for every call attempted.
C11_NeverThrows ==
  /\ turn.pc # "threw"
  /\ turn.pc = "returned" =>
       /\ turn.response.message.role = "assistant"
       /\ turn.response.conversationId = turn.conversationId
       /\ turn.response.conversationId # Null
       /\ Logged("synthesisFailed") # {} =>
            /\ turn.response.message.error
            /\ \A i \in Attempted :
                 /\ i \in DOMAIN turn.response.mcpActions
                 /\ turn.response.mcpActions[i].name = turn.suggestedTools[i]

\* a turn has returned after a tool call threw and the synthesis failed
C11_Witness ==
  /\ turn.pc = "returned"
  /\ Logged("synthesisFailed") # {}
  /\ Attempted = 1..MaxTools
  /\ \E i \in DOMAIN turn.response.mcpActions : turn.response.mcpActions[i].error # Unset
  /\ turn.response.message.error

Threw == {turn.log[k].i : k \in Logged("threw")}
Completed == Threw \cup {turn.log[k].i : k \in Logged("returned")}

Before(e1, i1, e2, i2) ==
  \A k2 \in DOMAIN turn.log :
    (turn.log[k2].e = e2 /\ turn.log[k2].i = i2) =>
      \E k1 \in 1..(k2 - 1) : turn.log[k1].e \in e1 /\ turn.log[k1].i = i1
OneAtATime(proposed) ==
  /\ \A i \in Attempted : i \in DOMAIN proposed
  /\ \A i \in Attempted \ {1} : Before({"returned", "threw"}, i - 1, "call", i)
  /\ \A i \in Completed : Before({"call"}, i, "returned", i) /\ Before({"call"}, i, "threw", i)
  /\ \A i \in DOMAIN proposed : Before({"returned", "threw"}, i, "synthesis", 0)
  /\ turn.pc \in {"synthesis", "returned"} =>
       /\ Len(turn.mcpActions) = Len(proposed)
       /\ \A i \in DOMAIN proposed :
            /\ turn.mcpActions[i].name = proposed[i]
            /\ (turn.mcpActions[i].result = Unset) # (turn.mcpActions[i].error = Unset)
            /\ (turn.mcpActions[i].error # Unset) = (i \in Threw)

\* C13 as stated: the calls proposed by the classification are executed one
\* at a time in proposal order, the synthesis starts after the last of them
\* and mcpActions has exactly one entry per proposed call.
C13_SequentialInOrder == OneAtATime(turn.suggestedTools)

\* C13 amended: the same, for the calls proposed by a classification whose
\* needsMCPTools is true; when it is false no proposed call is executed.
C13_SequentialWhenNeeded ==
  OneAtATime(IF turn.needsMCPTools THEN turn.suggestedTools ELSE << >>)

\* a turn has returned after executing MaxTools proposed calls of which one
\* threw and one returned
C13_Witness ==
  /\ turn.pc = "returned"
  /\ turn.needsMCPTools
  /\ Len(turn.suggestedTools) = MaxTools
  /\ turn.suggestedTools[1] # turn.suggestedTools[2]
  /\ Threw # {}
  /\ Completed \ Threw # {}

\* ------------------------------------------------------- chat properties
\* C20: when a chat request has been answered, the conversation stored under
\* the conversationId of the answer (the one supplied, if any) ends with the
\* user message of the turn followed by its assistant message.
C20_ExchangeStored ==
  (http.pc = "responded" /\ http.status = 200) =>
    LET id == http.data.conversationId
    IN /\ http.conversationId # Null => id = http.conversationId
       /\ id \in StoredIds(conversations)
       /\ LET ms == Stored(conversations, id).messages
          IN /\ Len(ms) >= 2
             /\ ms[Len(ms)] = http.data.message
             /\ ms[Len(ms) - 1].role = "user"

\* C28: when updateConversation(id, m) has returned, getConversation(id)
\* returns the conversation of id and its last message is m.
C28_WrittenIsStored ==
  [][\A id \in BStore.ids :
        (msgIds' = msgIds + 1 /\ UpdateCall(BStore, id))
          => LET r == getConversation(conversations', now', id)
             IN /\ r.val = id
                /\ LET ms == Stored(r.cs, id).messages
                   IN ms # << >> /\ ms[Len(ms)] = Message(msgIds', "user", FALSE)]_vars

\* an append created its conversation, the creation evicted another one by
\* volume, and the message is in the conversation created
C28_Witness ==
  /\ last.volume # {}
  /\ conversations # << >>
  /\ Len(conversations[Len(conversations)].all) = 1
  /\ conversations[Len(conversations)].messages = conversations[Len(conversations)].all

\* a step of one of the three reads of the conversation id
ReadCall(id) ==
  \/ GetCall(id)
  \/ \E limit \in 0..1 : GetHistoryCall(id, limit)
  \/ ExportCall(id)

\* C30: a read of a stored conversation sets its lastActivity to now and
\* changes nothing else, a read of an unknown id changes nothing, and a
\* creation that follows the read evicts the conversation read only if every
\* conversation it keeps is at least as recently active.
C30_ReadCountsAsActivity ==
  [][\A id \in BStore.ids :
        (last'.op = "get" /\ ReadCall(id))
          => /\ UNCHANGED <<now, msgIds>>
             /\ conversations' =
                  IF id \in StoredIds(conversations)
                    THEN [conversations EXCEPT
                            ![IndexOf(conversations, id)].lastActivity = now]
                    ELSE conversations
             /\ \A newId \in BStore.ids \ StoredIds(conversations') :
                  LET after == getOrCreateConversation(conversations', now', newId, newId).cs
                  IN (id \in StoredIds(conversations') /\ id \notin StoredIds(after))
                       => \A i \in DOMAIN after :
                            after[i].lastActivity >= Stored(conversations', id).lastActivity]_vars

\* a conversation has just been read in a full store that holds a
\* conversation with older activity
C30_Witness ==
  /\ last.op = "get"
  /\ last.val # Null
  /\ last.val \in StoredIds(conversations)
  /\ Len(conversations) = maxConversations
  /\ Stored(conversations, last.val).lastActivity = now
  /\ \E i \in DOMAIN conversations : conversations[i].lastActivity < now

\* a step in which the classification fails: listTools() throws, the model
\* call throws, or its content cannot be parsed
ClassificationFails ==
  \/ \E out \in ClientOutcomes("listTools") : Throws(out) /\ ListToolsSettled(out)
  \/ \E reply \in Replies(BTurn) : reply.form \in FailedForms /\ ClassifySettled(BTurn, reply)

\* C22: when the classification fails, the decision is needsMCPTools = false
\* with no proposed call and the category general, and the turn goes on to
\* the synthesis with no tool call made.
C22_FailedClassificationDefaults ==
  [][(turn.pc \in {"listTools", "classify"} /\ ClassificationFails)
       => /\ ~turn'.needsMCPTools
          /\ turn'.suggestedTools = << >>
          /\ turn'.category = "general"
          /\ turn'.pc = "synthesis"
          /\ turn'.mcpActions = << >>
          /\ turn'.log[Len(turn'.log)] = Event("synthesis", 0)]_vars

\* a turn whose classification call failed has returned a synthesized reply
\* with no action
C22_Witness ==
  /\ turn.pc = "returned"
  /\ Logged("classifyFailed") # {}
  /\ ~turn.response.message.error
  /\ turn.response.mcpActions = << >>

\* C29: a turn calls callTool only when its decision has needsMCPTools true
\* and at least one proposed call.  A turn that started while the manager was
\* not ready calls no tool, records no MCPAction, does not go through the
\* classification call, changes nothing of the connection, and returns the
\* reply of the synthesis (the error message only when the synthesis call
\* itself failed).
C29_NoToolsUnlessDecided ==
  /\ [](/\ Attempted # {} => (turn.needsMCPTools /\ Len(turn.suggestedTools) >= 1)
        /\ (turn.pc # "idle" /\ ~turn.ready) =>
              /\ Attempted = {}
              /\ turn.mcpActions = << >>
              /\ turn.pc \in {"listTools", "synthesis", "returned"}
              /\ turn.pc = "returned" =>
                   /\ turn.response.mcpActions = << >>
                   /\ Logged("synthesis") # {}
                   /\ turn.response.message.error <=> Logged("synthesisFailed") # {})
  /\ [][turn' # turn => UNCHANGED conn]_vars

\* a turn that started while the manager was not ready has returned a
\* synthesized reply, the manager having become ready meanwhile
C29_Witness ==
  /\ turn.pc = "returned"
  /\ ~turn.ready
  /\ ~turn.response.message.error
  /\ isClientConnected

\* ------------------------------------------- overlapping chat requests
\* the messages of the updateConversation calls made for id, in call order
IssuedFor(id) ==
  LET made == SelectSeq(issued, LAMBDA e : e.conversationId = id)
  IN [i \in DOMAIN made |-> made[i].message]

\* the messages of the calls for id that have not pushed yet, in queue order
PendingFor(id) ==
  LET waiting == SelectSeq(micro, LAMBDA k : posts[k].pc = "push" /\ posts[k].conversationId = id)
  IN [i \in DOMAIN waiting |-> Reply(waiting[i])]

IsSuffix(a, b) ==
  Len(a) <= Len(b) /\ a = SubSeq(b, Len(b) - Len(a) + 1, Len(b))

\* C21: whatever the interleaving of the turns, of the cleanup timer and of
\* the clock, no message passed to updateConversation is pushed to a
\* conversation that is not stored, and the messages appended to a stored
\* conversation since its creation, followed by those about to be pushed,
\* are the last calls made for its id, each once and in call order; its
\* list is the last maxMessagesPerConversation of them.
C21_AppendsSerialized ==
  /\ \A k \in DOMAIN posts : ~posts[k].lost
  /\ \A i \in DOMAIN conversations :
       LET c == conversations[i]
       IN /\ IsSuffix(c.all \o PendingFor(c.id), IssuedFor(c.id))
          /\ c.messages = LastN(c.all, maxMessagesPerConversation)

\* two turns on one conversation id overlapped, the second to arrive was the
\* first to finish, and both replies are stored in that order
C21_Witness ==
  /\ Len(posts) >= 2
  /\ posts[1].pc = "done" /\ posts[2].pc = "done"
  /\ \E i \in DOMAIN conversations :
       /\ Len(conversations[i].all) = 2
       /\ conversations[i].all[1].id = 2
       /\ conversations[i].all[2].id = 1

\* the turns that have settled
Settled == {k \in DOMAIN posts : posts[k].pc # "turn"}

\* C23: after any interleaving of overlapping turns the number of
\* response-time samples is the number of turns that returned a reply, and
\* the tool-call counter is the number of those whose mcpActions was not
\* empty: the totals of the same turns run one after another.
C23_StatsAreTotals ==
  /\ Len(responseTimes) = Cardinality({k \in Settled : ~posts[k].error})
  /\ toolCallCount = Cardinality({k \in Settled : ~posts[k].error /\ posts[k].actions > 0})

\* two turns that used tools overlapped and finished in the reverse of their
\* arrival order
C23_Witness ==
  /\ responseTimes = <<2, 1>>
  /\ toolCallCount = 2

====
